---- MODULE Spec2Model ----
(***************************************************************************)
(* Model of kilonova.py: backup, restore and clone of container volumes.   *)
(* One run of the program is a sequential process: `pc` is the position in *)
(* the Python code (labels carry the source line at which control waits),  *)
(* `running` the child processes started by subprocess.run and not yet     *)
(* exited, and `existing`, `contents`, `fs` the container engine's volumes *)
(* and the host filesystem the run acts on.                                *)
(***************************************************************************)
EXTENDS Integers, Sequences, FiniteSets, TLC

VARIABLES
    arguments,     \* argparse namespace: func, engine, volume, source, target
    installed,     \* shutil.which(engine) is not None
    existing,      \* names of the volumes the engine has
    contents,      \* volume name -> set of file names in the volume
    listingNoise,  \* the engine's listing carries a line with a single column
    fs,            \* host filesystem: input, output path, temporary directory
    pc,            \* position in the program
    ret,           \* where volume_exists / volume_empty returns to
    volume,        \* the `volume` parameter of volume_exists / volume_empty
    retval,        \* value returned by volume_exists / volume_empty
    running,       \* child processes started and not yet exited
    result,        \* the CompletedProcess of the last subprocess.run
    calls,         \* every command line given to subprocess.run, in order
    exitCode,      \* process exit status, meaningful once pc = "exited"
    raised,        \* what ended the process
    atStart,       \* the volumes and their contents when the run began
    returncodes,   \* exit status of every child, in order
    verdicts       \* every value volume_exists / volume_empty has returned

vars == <<arguments, installed, existing, contents, listingNoise, fs, pc, ret,
          volume, retval, running, result, calls, exitCode, raised, atStart,
          returncodes, verdicts>>

----------------------------------------------------------------------------
(* Bounds *)

NumNames == 2

AllNames == <<"VOLUME", "data", "cache", "db">>

Names == {AllNames[i] : i \in 1..NumNames}

\* File names a volume may hold, in the order `ls` prints them.  The first
\* one consists of a single blank.
AllFiles == << <<" ">>, <<"a">> >>

FileNames == {AllFiles[i] : i \in 1..Len(AllFiles)}

\* Content states a modelled volume starts in.
ContentChoices == {{}, {<<" ">>}, {<<"a">>}}

\* Exit statuses a child process may end with.
ReturnCodes == {0, 1, 125}

Whitespace == {" ", "\n", "\r", "\t"}

----------------------------------------------------------------------------
(* Strings, as sequences of characters.  The program trims nowhere; the   *)
(* trimming below is what statements about "output empty after trimming"  *)
(* are measured with.                                                     *)

RECURSIVE LStrip(_)
LStrip(s) ==
    IF s # <<>> /\ Head(s) \in Whitespace THEN LStrip(Tail(s)) ELSE s

RECURSIVE RStrip(_)
RStrip(s) ==
    IF s # <<>> /\ s[Len(s)] \in Whitespace
    THEN RStrip(SubSeq(s, 1, Len(s) - 1))
    ELSE s

\* Leading and trailing whitespace removed, as str.strip() would.
Strip(s) == RStrip(LStrip(s))

----------------------------------------------------------------------------
(* The container engine and the helper image, as the program consumes them *)

\* Output of `ls -A <directory>` for a volume holding the files S: each name
\* followed by a line terminator, nothing at all for an empty directory.
RECURSIVE LsFrom(_, _)
LsFrom(S, i) ==
    IF i > Len(AllFiles) THEN <<>>
    ELSE (IF AllFiles[i] \in S THEN AllFiles[i] \o <<"\n">> ELSE <<>>)
         \o LsFrom(S, i + 1)

LsOutput(S) == LsFrom(S, 1)

\* Output of `docker volume ls`, already cut into lines (str.splitlines) and
\* each line into its whitespace-delimited columns (str.split): the header
\* "DRIVER    VOLUME NAME", then one "local <name>" line per volume.
RECURSIVE VolumeLines(_, _)
VolumeLines(E, i) ==
    IF i > NumNames THEN <<>>
    ELSE (IF AllNames[i] \in E THEN << <<"local", AllNames[i]>> >> ELSE <<>>)
         \o VolumeLines(E, i + 1)

DockerVolumeLs(E, noise) ==
    << <<"DRIVER", "VOLUME", "NAME">> >>
    \o VolumeLines(E, 1)
    \o (IF noise THEN << <<"WARNING:">> >> ELSE <<>>)

NoOutput == [captured |-> FALSE, text |-> <<>>]

Captured(text) == [captured |-> TRUE, text |-> text]

\* Python's `output != ""`: None (output not captured) differs from "".
IsEmptyString(output) == output.captured /\ output.text = <<>>

----------------------------------------------------------------------------
(* Command lines *)

\* `kind` is the command the engine is asked to run, `arg` and `arg2` its
\* volume operands, `mounts` the volumes named in --mount type=volume,source=.
VolumeLsCommand ==
    [kind |-> "volume_ls", arg |-> "-", arg2 |-> "-", mounts |-> {}]

VolumeExistsCommand(v) ==
    [kind |-> "volume_exists", arg |-> v, arg2 |-> "-", mounts |-> {}]

LsCommand(v) == [kind |-> "ls", arg |-> v, arg2 |-> "-", mounts |-> {v}]

TarCreateCommand(v) == [kind |-> "tar_c", arg |-> v, arg2 |-> "-", mounts |-> {v}]

TarExtractCommand(v) == [kind |-> "tar_x", arg |-> v, arg2 |-> "-", mounts |-> {v}]

CpCommand(s, t) == [kind |-> "cp", arg |-> s, arg2 |-> t, mounts |-> {s, t}]

CheckKinds == {"volume_ls", "volume_exists", "ls"}

MainKinds == {"tar_c", "tar_x", "cp"}

HelperKinds == {"ls", "tar_c", "tar_x", "cp"}

----------------------------------------------------------------------------
(* Initial state: one invocation of the program with parsed arguments *)

Engines == {"docker", "podman"}

Funcs == {"backup", "restore", "clone"}

ArgumentSets ==
    {[func |-> f, engine |-> e, volume |-> s, source |-> s, target |-> t] :
        f \in Funcs, e \in Engines, s \in Names, t \in Names}

NoResult == [returncode |-> 0, stdout |-> NoOutput]

Init ==
    /\ arguments \in {a \in ArgumentSets : a.func # "clone" => a.target = a.source}
    /\ installed \in BOOLEAN
    /\ existing \in SUBSET Names
    /\ contents \in {c \in [Names -> ContentChoices] :
                        \A n \in Names : n \notin existing => c[n] = {}}
    /\ listingNoise \in BOOLEAN
    /\ fs \in {f \in [input : BOOLEAN, output : {"absent", "file", "dir"},
                       entry : BOOLEAN, temp : {"none"}, archive : {FALSE},
                       placed : {{}}] :
                  /\ f.entry => f.output = "dir"
                  /\ arguments.func # "backup" => f.output = "absent"
                  /\ arguments.func # "restore" => f.input}
    /\ pc = "main"
    /\ ret = "-"
    /\ volume = "-"
    /\ retval = FALSE
    /\ running = <<>>
    /\ result = NoResult
    /\ calls = <<>>
    /\ exitCode = 0
    /\ raised = "none"
    /\ atStart = [existing |-> existing, contents |-> contents]
    /\ returncodes = <<>>
    /\ verdicts = <<>>

----------------------------------------------------------------------------
(* Building blocks *)

static == <<arguments, installed, listingNoise, atStart>>

env == <<existing, contents, fs>>

frame == <<ret, volume, retval>>

Verdict(fn, v, value) == [fn |-> fn, volume |-> v, value |-> value]

\* Mutant of ReturncodeFailed: only exit status 1 counts as a failure.
ReturncodeFailed_only_one(returncode) == returncode = 1

\* `if result.returncode != 0:`
ReturncodeFailed(returncode) == returncode # 0

\* Mutant of subprocess_run: the command is started a second time without
\* waiting for the first child.
subprocess_run_twice(command, capture) ==
    LET child == [command |-> command, capture |-> capture]
    IN  /\ running' = running \o <<child, child>>
        /\ calls' = calls \o <<command, command>>

\* subprocess.run(shell, shell = True, ...): the child is started and the
\* caller blocks until it has exited.
subprocess_run(command, capture) ==
    /\ running' = Append(running, [command |-> command, capture |-> capture])
    /\ calls' = Append(calls, command)

\* sys.exit(code), an uncaught exception (status 1) or main() returning (0).
\* Leaving the `with tempfile.TemporaryDirectory()` block on the way out
\* removes the directory and what it holds.
Terminate(code, why) ==
    /\ pc' = "exited"
    /\ exitCode' = code
    /\ raised' = why
    /\ fs' = IF fs.temp = "present"
             THEN [fs EXCEPT !.temp = "removed", !.archive = FALSE]
             ELSE fs

\* Call volume_exists / volume_empty with `v`, to come back at `back`.
Call(callee, v, back) ==
    /\ pc' = callee
    /\ volume' = v
    /\ ret' = back
    /\ UNCHANGED <<static, env, retval, running, result, returncodes, calls,
                   exitCode, raised, verdicts>>

\* The child at the head of `running` exits: the engine (and the helper
\* container's command) act on the volumes and the bind-mounted temporary
\* directory, and the CompletedProcess is handed to the blocked caller.
\* A helper container that starts creates any named volume it mounts that
\* does not exist yet.
subprocess_exits ==
    /\ running # <<>>
    /\ LET child == Head(running)
           command == child.command
           Out(text) == IF child.capture THEN Captured(text) ELSE NoOutput
       IN  \E rc \in ReturnCodes :
           /\ command.kind = "volume_ls" => rc \in {0, 1}
           /\ command.kind = "volume_exists" =>
                  rc \in (IF command.arg \in existing THEN {0} ELSE {1}) \cup {125}
           /\ running' = Tail(running)
           /\ existing' = IF rc = 0 THEN existing \cup command.mounts ELSE existing
           /\ contents' =
                  IF rc # 0 THEN contents
                  ELSE IF command.kind = "tar_x"
                       THEN [contents EXCEPT ![command.arg] = @ \cup {<<"a">>}]
                  ELSE IF command.kind = "cp"
                       THEN [contents EXCEPT
                                ![command.arg2] = @ \cup contents[command.arg]]
                  ELSE contents
           /\ \E partial \in BOOLEAN :
                  fs' = IF command.kind = "tar_c"
                        THEN [fs EXCEPT !.archive = (rc = 0) \/ partial]
                        ELSE fs
           /\ returncodes' = Append(returncodes, rc)
           /\ result' =
                  [returncode |-> rc,
                   stdout |->
                      IF command.kind = "volume_ls" /\ rc = 0
                      THEN Out(DockerVolumeLs(existing, listingNoise))
                      ELSE IF command.kind = "ls" /\ rc = 0
                      THEN Out(LsOutput(contents[command.arg]))
                      ELSE Out(<<>>)]
    /\ UNCHANGED <<static, frame, pc, calls, exitCode, raised, verdicts>>

----------------------------------------------------------------------------
(* volume_empty *)

\* Mutant of volume_empty_return: the output is trimmed before the test.
volume_empty_return_trimmed(stdout) ==
    stdout.captured /\ Strip(stdout.text) = <<>>

\* `return result.stdout == ""`
volume_empty_return(stdout) == IsEmptyString(stdout)

volume_empty ==
    /\ pc = "volume_empty"
    /\ subprocess_run(LsCommand(volume), TRUE)
    /\ pc' = "volume_empty_36"
    /\ UNCHANGED <<static, env, frame, result, returncodes, exitCode, raised, verdicts>>

volume_empty_36 ==
    /\ pc = "volume_empty_36"
    /\ running = <<>>
    /\ IF ReturncodeFailed(result.returncode)
       THEN /\ Terminate(1, "SystemExit")
            /\ UNCHANGED <<retval, verdicts>>
       ELSE /\ retval' = volume_empty_return(result.stdout)
            /\ verdicts' = Append(verdicts,
                   Verdict("volume_empty", volume, volume_empty_return(result.stdout)))
            /\ pc' = ret
            /\ UNCHANGED <<fs, exitCode, raised>>
    /\ UNCHANGED <<static, existing, contents, ret, volume, running, result,
                   returncodes, calls>>

----------------------------------------------------------------------------
(* engine_installed, volume_exists *)

engine_installed(engine) == installed

\* `lines = [column.split()[1] for column in output.splitlines()]` raises
\* IndexError when some line has fewer than two columns.
IndexErrorIn(output) == \E i \in 1..Len(output) : Len(output[i]) < 2

\* The second column of every line (the list index 1 of Python).
SecondColumns(output) == {output[i][2] : i \in 1..Len(output)}

volume_exists ==
    /\ pc = "volume_exists"
    /\ IF arguments.engine = "docker"
       THEN /\ subprocess_run(VolumeLsCommand, TRUE)
            /\ pc' = "volume_exists_65"
       ELSE /\ subprocess_run(VolumeExistsCommand(volume), FALSE)
            /\ pc' = "volume_exists_88"
    /\ UNCHANGED <<static, env, frame, result, returncodes, exitCode, raised, verdicts>>

\* Lines 65-75, the docker branch.
volume_exists_65 ==
    /\ pc = "volume_exists_65"
    /\ running = <<>>
    /\ LET output == result.stdout.text
       IN  IF ReturncodeFailed(result.returncode)
           THEN /\ Terminate(1, "SystemExit")
                /\ UNCHANGED <<retval, verdicts>>
           ELSE IF IndexErrorIn(output)
           THEN /\ Terminate(1, "IndexError")
                /\ UNCHANGED <<retval, verdicts>>
           ELSE /\ retval' = (volume \in SecondColumns(output))
                /\ verdicts' = Append(verdicts,
                       Verdict("volume_exists", volume, volume \in SecondColumns(output)))
                /\ pc' = ret
                /\ UNCHANGED <<fs, exitCode, raised>>
    /\ UNCHANGED <<static, existing, contents, ret, volume, running, result, returncodes,
                   calls>>

\* Lines 88-97, the podman branch.  The output was not captured, so
\* `output` is None.
volume_exists_88 ==
    /\ pc = "volume_exists_88"
    /\ running = <<>>
    /\ LET output == result.stdout
       IN  IF result.returncode = 0
           THEN /\ retval' = TRUE
                /\ verdicts' = Append(verdicts, Verdict("volume_exists", volume, TRUE))
                /\ pc' = ret
                /\ UNCHANGED <<fs, exitCode, raised>>
           ELSE IF ~IsEmptyString(output)
           THEN /\ retval' = FALSE
                /\ verdicts' = Append(verdicts, Verdict("volume_exists", volume, FALSE))
                /\ pc' = ret
                /\ UNCHANGED <<fs, exitCode, raised>>
           ELSE /\ Terminate(1, "SystemExit")
                /\ UNCHANGED <<retval, verdicts>>
    /\ UNCHANGED <<static, existing, contents, ret, volume, running, result, returncodes,
                   calls>>

----------------------------------------------------------------------------
(* backup *)

\* Line 114: `if not volume_exists(engine, volume)` exits.
backup_exists_check(exists) == ~exists

\* Mutant of backup_empty_check: an empty volume is let through.
backup_empty_check_skipped(empty) == FALSE

\* Line 118: `if volume_empty(engine, volume)` exits.
backup_empty_check(empty) == empty

backup ==
    /\ pc = "backup"
    /\ Call("volume_exists", arguments.volume, "backup_114")

backup_114 ==
    /\ pc = "backup_114"
    /\ IF backup_exists_check(retval)
       THEN /\ Terminate(1, "SystemExit")
            /\ UNCHANGED <<static, existing, contents, frame, running, result, returncodes,
                           calls, verdicts>>
       ELSE Call("volume_empty", arguments.volume, "backup_118")

\* Lines 118-145: the emptiness verdict, then the temporary directory is
\* created and the archiving container started.
backup_118 ==
    /\ pc = "backup_118"
    /\ IF backup_empty_check(retval)
       THEN /\ Terminate(1, "SystemExit")
            /\ UNCHANGED <<running, calls>>
       ELSE /\ fs' = [fs EXCEPT !.temp = "present"]
            /\ subprocess_run(TarCreateCommand(arguments.volume), FALSE)
            /\ pc' = "backup_145"
            /\ UNCHANGED <<exitCode, raised>>
    /\ UNCHANGED <<static, existing, contents, frame, result, returncodes, verdicts>>

backup_145 ==
    /\ pc = "backup_145"
    /\ running = <<>>
    /\ IF ReturncodeFailed(result.returncode)
       THEN Terminate(1, "SystemExit")
       ELSE /\ pc' = "backup_154"
            /\ UNCHANGED <<fs, exitCode, raised>>
    /\ UNCHANGED <<static, existing, contents, frame, running, result, returncodes, calls,
                   verdicts>>

\* shutil.move(source, target): a destination that is an existing directory
\* receives the file inside it, under the source's basename, and the move
\* raises when that entry is already there; any other destination is
\* (over)written by the rename.  The operating system may refuse either.
\* Where `placed` records the archive: "target" is the resolved output path,
\* "inside" the entry of that name within it.
shutil_move(ok) ==
    IF ~fs.archive \/ ~ok \/ (fs.output = "dir" /\ fs.entry)
    THEN fs
    ELSE IF fs.output = "dir"
    THEN [fs EXCEPT !.archive = FALSE, !.entry = TRUE, !.placed = {"inside"}]
    ELSE [fs EXCEPT !.archive = FALSE, !.output = "file", !.placed = {"target"}]

\* Lines 151-157 and the end of the `with` block; main() then returns.
backup_154 ==
    /\ pc = "backup_154"
    /\ \E ok \in BOOLEAN :
          LET moved == shutil_move(ok)
          IN  /\ fs' = [moved EXCEPT !.temp = "removed", !.archive = FALSE]
              /\ pc' = "exited"
              /\ exitCode' = IF moved = fs THEN 1 ELSE 0
              /\ raised' = IF moved = fs THEN "Error" ELSE "returned"
    /\ UNCHANGED <<static, existing, contents, frame, running, result, returncodes, calls,
                   verdicts>>

----------------------------------------------------------------------------
(* restore *)

\* Line 170: `if not volume_exists(engine, volume)` exits.
restore_exists_check(exists) == ~exists

\* Line 174: `if not volume_empty(engine, volume)` exits.
restore_empty_check(empty) == ~empty

\* Line 180: `if not input_path.exists()` exits.
restore_input_check(exists) == ~exists

restore ==
    /\ pc = "restore"
    /\ Call("volume_exists", arguments.volume, "restore_170")

restore_170 ==
    /\ pc = "restore_170"
    /\ IF restore_exists_check(retval)
       THEN /\ Terminate(1, "SystemExit")
            /\ UNCHANGED <<static, existing, contents, frame, running, result, returncodes,
                           calls, verdicts>>
       ELSE Call("volume_empty", arguments.volume, "restore_174")

\* Lines 174-208.
restore_174 ==
    /\ pc = "restore_174"
    /\ IF restore_empty_check(retval) \/ restore_input_check(fs.input)
       THEN /\ Terminate(1, "SystemExit")
            /\ UNCHANGED <<running, calls>>
       ELSE /\ subprocess_run(TarExtractCommand(arguments.volume), FALSE)
            /\ pc' = "restore_208"
            /\ UNCHANGED <<fs, exitCode, raised>>
    /\ UNCHANGED <<static, existing, contents, frame, result, returncodes, verdicts>>

restore_208 ==
    /\ pc = "restore_208"
    /\ running = <<>>
    /\ IF ReturncodeFailed(result.returncode)
       THEN Terminate(1, "SystemExit")
       ELSE Terminate(0, "returned")
    /\ UNCHANGED <<static, existing, contents, frame, running, result, returncodes, calls,
                   verdicts>>

----------------------------------------------------------------------------
(* clone *)

\* Lines 229 and 237: `if not volume_exists(engine, ...)` exits.
clone_exists_check(exists) == ~exists

\* Line 233: `if volume_empty(engine, source)` exits.
clone_source_check(empty) == empty

\* Mutant of clone_target_check: a target holding files is let through.
clone_target_check_skipped(empty) == FALSE

\* Line 241: `if not volume_empty(engine, target)` exits.
clone_target_check(empty) == ~empty

clone ==
    /\ pc = "clone"
    /\ Call("volume_exists", arguments.source, "clone_229")

clone_229 ==
    /\ pc = "clone_229"
    /\ IF clone_exists_check(retval)
       THEN /\ Terminate(1, "SystemExit")
            /\ UNCHANGED <<static, existing, contents, frame, running, result, returncodes,
                           calls, verdicts>>
       ELSE Call("volume_empty", arguments.source, "clone_233")

clone_233 ==
    /\ pc = "clone_233"
    /\ IF clone_source_check(retval)
       THEN /\ Terminate(1, "SystemExit")
            /\ UNCHANGED <<static, existing, contents, frame, running, result, returncodes,
                           calls, verdicts>>
       ELSE Call("volume_exists", arguments.target, "clone_237")

clone_237 ==
    /\ pc = "clone_237"
    /\ IF clone_exists_check(retval)
       THEN /\ Terminate(1, "SystemExit")
            /\ UNCHANGED <<static, existing, contents, frame, running, result, returncodes,
                           calls, verdicts>>
       ELSE Call("volume_empty", arguments.target, "clone_241")

\* Lines 241-265.
clone_241 ==
    /\ pc = "clone_241"
    /\ IF clone_target_check(retval)
       THEN /\ Terminate(1, "SystemExit")
            /\ UNCHANGED <<running, calls>>
       ELSE /\ subprocess_run(CpCommand(arguments.source, arguments.target), FALSE)
            /\ pc' = "clone_265"
            /\ UNCHANGED <<fs, exitCode, raised>>
    /\ UNCHANGED <<static, existing, contents, frame, result, returncodes, verdicts>>

clone_265 ==
    /\ pc = "clone_265"
    /\ running = <<>>
    /\ IF ReturncodeFailed(result.returncode)
       THEN Terminate(1, "SystemExit")
       ELSE Terminate(0, "returned")
    /\ UNCHANGED <<static, existing, contents, frame, running, result, returncodes, calls,
                   verdicts>>

----------------------------------------------------------------------------
(* main *)

\* Lines 328-334: the engine check, then arguments.func(arguments).
main ==
    /\ pc = "main"
    /\ IF ~engine_installed(arguments.engine)
       THEN Terminate(1, "SystemExit")
       ELSE /\ pc' = arguments.func
            /\ UNCHANGED <<fs, exitCode, raised>>
    /\ UNCHANGED <<static, existing, contents, frame, running, result, returncodes, calls,
                   verdicts>>

Next ==
    \/ main
    \/ subprocess_exits
    \/ volume_empty
    \/ volume_empty_36
    \/ volume_exists
    \/ volume_exists_65
    \/ volume_exists_88
    \/ backup
    \/ backup_114
    \/ backup_118
    \/ backup_145
    \/ backup_154
    \/ restore
    \/ restore_170
    \/ restore_174
    \/ restore_208
    \/ clone
    \/ clone_229
    \/ clone_233
    \/ clone_237
    \/ clone_241
    \/ clone_265

Spec == Init /\ [][Next]_vars

----------------------------------------------------------------------------
(* Vocabulary of the properties *)

Exited == pc = "exited"

Ran(kind) == \E i \in 1..Len(calls) : calls[i].kind = kind

Count(kinds) == Cardinality({i \in 1..Len(calls) : calls[i].kind \in kinds})

MissingAtStart(v) == v \notin atStart.existing

EmptyAtStart(v) == v \in atStart.existing /\ atStart.contents[v] = {}

NonEmptyAtStart(v) == atStart.contents[v] # {}

\* Volumes for which volume_exists has returned True so far.
ExistsTrue ==
    {verdicts[i].volume :
        i \in {j \in 1..Len(verdicts) :
                 verdicts[j].fn = "volume_exists" /\ verdicts[j].value}}

\* The verdicts with which every check of the operation has passed.
PassingVerdicts ==
    IF arguments.func = "backup"
    THEN << Verdict("volume_exists", arguments.volume, TRUE),
            Verdict("volume_empty", arguments.volume, FALSE) >>
    ELSE IF arguments.func = "restore"
    THEN << Verdict("volume_exists", arguments.volume, TRUE),
            Verdict("volume_empty", arguments.volume, TRUE) >>
    ELSE << Verdict("volume_exists", arguments.source, TRUE),
            Verdict("volume_empty", arguments.source, FALSE),
            Verdict("volume_exists", arguments.target, TRUE),
            Verdict("volume_empty", arguments.target, TRUE) >>

PreconditionsPassed ==
    /\ verdicts = PassingVerdicts
    /\ arguments.func = "restore" => fs.input

\* Control is back in the caller with the value volume_exists returned.
AtExistsReturn == pc \in {"backup_114", "restore_170", "clone_229", "clone_237"}

\* Control is back in the caller with the value volume_empty returned.
AtEmptyReturn == pc \in {"backup_118", "restore_174", "clone_233", "clone_241"}

----------------------------------------------------------------------------
(* Properties *)

\* C1: a backup of a volume that does not exist, or that exists and is
\* empty, never reaches shutil.move, places nothing at the output path, and
\* when the process has ended its exit code is 1.
C1_BackupRefused ==
    (/\ arguments.func = "backup"
     /\ MissingAtStart(arguments.volume) \/ EmptyAtStart(arguments.volume))
    => /\ pc # "backup_154"
       /\ fs.placed = {}
       /\ Exited => exitCode = 1

\* An existing, empty volume was found empty and the backup exited with 1.
C1_Witness ==
    /\ arguments.func = "backup"
    /\ installed
    /\ EmptyAtStart(arguments.volume)
    /\ verdicts = << Verdict("volume_exists", arguments.volume, TRUE),
                     Verdict("volume_empty", arguments.volume, TRUE) >>
    /\ Exited
    /\ exitCode = 1

\* C2: a restore whose target volume does not exist, or is not empty, or
\* whose input path does not exist, never starts the extraction container
\* and its exit code is 1.
C2_RestoreRefused ==
    (/\ arguments.func = "restore"
     /\ \/ MissingAtStart(arguments.volume)
        \/ NonEmptyAtStart(arguments.volume)
        \/ ~fs.input)
    => /\ ~Ran("tar_x")
       /\ Exited => exitCode = 1

\* C3: the copy container of a clone is started only after the four checks
\* have returned, in order: source exists, source not empty, target exists,
\* target empty; and a clone whose source is empty or whose target is not
\* empty (source = target included) never starts it and exits with 1.
C3_CloneChecked ==
    arguments.func = "clone" =>
       /\ Ran("cp") => verdicts = PassingVerdicts
       /\ (\/ atStart.contents[arguments.source] = {}
           \/ NonEmptyAtStart(arguments.target))
          => /\ ~Ran("cp")
             /\ Exited => exitCode = 1

\* The copy container has been started by a clone.
C3_Witness ==
    /\ arguments.func = "clone"
    /\ Ran("cp")
    /\ arguments.source # arguments.target
    /\ NonEmptyAtStart(arguments.source)
    /\ EmptyAtStart(arguments.target)

\* C4: a run ends with exit code 0 or 1, and with 0 only when the engine is
\* installed, every precondition check passed, and every child process,
\* the main helper container included, returned 0; in every other case
\* (engine missing, a failed check, a non-zero child) the code is 1.
C4_ExitCodes ==
    Exited =>
       /\ exitCode \in {0, 1}
       /\ exitCode = 0 =>
             /\ installed
             /\ PreconditionsPassed
             /\ Count(MainKinds) = 1
             /\ \A i \in 1..Len(returncodes) : returncodes[i] = 0
             /\ Len(returncodes) = Len(calls)

\* A run has ended with exit code 0.
C4_Witness ==
    /\ Exited
    /\ exitCode = 0
    /\ Count(MainKinds) = 1

\* C5: once a backup has ended the temporary directory is gone, and after a
\* successful backup it holds no archive and the one file produced is at
\* the resolved output path.
C5_TempRemovedOneFile ==
    (arguments.func = "backup" /\ Exited) =>
       /\ fs.temp # "present"
       /\ exitCode = 0 => (~fs.archive /\ fs.placed = {"target"})

\* C6: volume_exists returns False for every volume the engine does not
\* have, whatever lines the docker listing holds (header, short lines).
C6_AbsentIsFalse ==
    /\ (AtExistsReturn /\ volume \notin existing) => retval = FALSE
    /\ raised # "IndexError"

\* C7 as stated: when the listing container exits 0 and its output is empty
\* after trimming, volume_empty returns True.
C7_TrimmedEmptyIsTrue ==
    (AtEmptyReturn /\ Strip(result.stdout.text) = <<>>) => retval = TRUE

\* C7 as amended: when the listing container exits 0, volume_empty returns
\* True if its output is the empty string, and False if the output has
\* characters, blanks and line terminators included.
C7_ExactlyEmptyIsTrue ==
    AtEmptyReturn =>
       /\ result.returncode = 0
       /\ result.stdout.text = <<>> => retval = TRUE
       /\ result.stdout.text # <<>> => retval = FALSE

\* volume_empty has returned True on an empty output.
C7_Witness ==
    /\ AtEmptyReturn
    /\ result.returncode = 0
    /\ result.stdout.text = <<>>
    /\ retval = TRUE

\* C8: volume_exists never returns to its caller after an unexpected
\* non-zero exit of the engine's subcommand (any non-zero exit of `docker
\* volume ls`; any exit of `podman volume exists` other than 0 and 1): such
\* an exit ends the process.
C8_HardFailure ==
    AtExistsReturn =>
       result.returncode \in (IF arguments.engine = "docker" THEN {0} ELSE {0, 1})

\* C9 as stated: at most one child at a time, at most two check invocations,
\* exactly one main helper invocation in a successful run, at most three
\* invocations in all.
C9_AtMostThree ==
    /\ Len(running) <= 1
    /\ Count(CheckKinds) <= 2
    /\ Len(calls) <= 3
    /\ \A i \in 1..Len(calls) : calls[i].kind \in MainKinds => i = Len(calls)
    /\ (Exited /\ exitCode = 0) => Count(MainKinds) = 1

\* C9 as amended: at most one child at a time; backup and restore issue at
\* most two check invocations and three invocations in all, clone at most
\* four and five; the main helper invocation comes after every check
\* invocation, and a successful run has exactly one.
C9_ChecksThenOneMain ==
    /\ Len(running) <= 1
    /\ Count(CheckKinds) <= (IF arguments.func = "clone" THEN 4 ELSE 2)
    /\ Len(calls) <= (IF arguments.func = "clone" THEN 5 ELSE 3)
    /\ \A i \in 1..Len(calls) : calls[i].kind \in MainKinds => i = Len(calls)
    /\ (Exited /\ exitCode = 0) => Count(MainKinds) = 1

\* A clone has succeeded with four check invocations and one copy.
C9_Witness ==
    /\ arguments.func = "clone"
    /\ Exited
    /\ exitCode = 0
    /\ Count(CheckKinds) = 4
    /\ Len(calls) = 5

\* C10: every helper container is started with the engine installed and
\* mounts only volumes for which volume_exists has returned True, so none
\* mounts a volume that did not exist when the run began.
C10_MountsOnlyExisting ==
    \A i \in 1..Len(calls) :
       calls[i].kind \in HelperKinds =>
          /\ installed
          /\ calls[i].mounts \subseteq ExistsTrue
          /\ calls[i].mounts \subseteq atStart.existing

----------------------------------------------------------------------------
(* What does hold of the operations the refuted statements are about *)

\* The temporary directory of a backup is gone on every way out of it.
TempDirectoryRemoved == Exited => fs.temp # "present"

\* After a successful backup the archive is at the resolved output path, or
\* inside it when that path was a directory.
ArchivePlaced ==
    (arguments.func = "backup" /\ Exited /\ exitCode = 0) =>
       /\ ~fs.archive
       /\ fs.placed \in {{"target"}, {"inside"}}

\* A helper container is started only with the engine installed and only
\* for volumes for which volume_exists has already returned True.
MountAfterExists ==
    [][Len(calls') > Len(calls) =>
          LET command == calls'[Len(calls')]
          IN  command.kind \in HelperKinds =>
                 (installed /\ command.mounts \subseteq ExistsTrue)]_vars

\* A non-zero exit of `docker volume ls` ends the process.
DockerListingFailureExits ==
    (arguments.engine = "docker" /\ AtExistsReturn) => result.returncode = 0

\* The podman branch of volume_exists never exits the process: a run with
\* podman that ended by sys.exit did so with a verdict already returned, or
\* without any child started.
PodmanBranchNeverExits ==
    (arguments.engine = "podman" /\ Exited /\ installed) => verdicts # <<>>

====
